---- MODULE Spec2Model ----
(***************************************************************************)
(* A model of the Sweego REST email adapter for Payload CMS                 *)
(* (src/src/index.ts): the adapter factory and its sendEmail operation, the *)
(* message normaliser (address parsing, attachment and header mapping,      *)
(* payload assembly) and the classification of the vendor's response.       *)
(*                                                                         *)
(* Strings are sequences of one-character strings, so that the regular     *)
(* expressions of the address parser are computed character by character.  *)
(* An optional value is a sequence of length at most one: << >> is          *)
(* undefined (the field is left out of the JSON body), <<v>> is v.          *)
(***************************************************************************)
EXTENDS Naturals, Sequences, FiniteSets, TLC

\* ------------------------------------------------------------------------
\* Bounds of the model
\* ------------------------------------------------------------------------

\* Number of sendEmail calls that may be in flight on the one adapter.
MaxCalls == 2
\* Longest display-name text between the double quotes of "Name" <email>.
MaxNameLen == 2
\* Longest text between the angle brackets of "Name" <email>.
MaxEmailLen == 1
\* Longest free-form address string (bare or malformed addresses).
MaxAddrLen == 3
\* Longest detail list of an error body.
MaxDetail == 2
\* Longest attachment list of a message.
MaxAttachments == 2

\* ------------------------------------------------------------------------
\* Characters and strings
\* ------------------------------------------------------------------------

SP == " "
DQ == "\""
APOS == "'"
LT == "<"
GT == ">"

\* All strings over alphabet A of length at most n.
StringsUpTo(A, n) == UNION {[1..k -> A] : k \in 0..n}

\* A JavaScript string literal, as a string of the model.
Lit(name) ==
  CASE name = "string" -> <<"s", "t", "r", "i", "n", "g">>
    [] name = "a" -> <<"a">>
    [] name = "b" -> <<"b">>
    [] name = ", " -> <<",", " ">>
    [] OTHER -> <<name>>

\* String.prototype.trim: white space removed at both ends.
RECURSIVE TrimStart(_)
TrimStart(s) == IF s # <<>> /\ Head(s) = SP THEN TrimStart(Tail(s)) ELSE s

RECURSIVE TrimEnd(_)
TrimEnd(s) ==
  IF s # <<>> /\ s[Len(s)] = SP THEN TrimEnd(SubSeq(s, 1, Len(s) - 1)) ELSE s

Trim(s) == TrimEnd(TrimStart(s))

Max(S) == CHOOSE m \in S : \A x \in S : x <= m

\* The match of /.*<(.*)>/ and of /(.*)<.*>/ in s (no line terminators): both
\* begin at the start of s; the greedy leading .* ends at the last "<" that
\* has a ">" after it, the greedy inner .* ends at the last ">".  << >> when
\* the expression does not match, <<i, j>> (the places of "<" and ">") else.
BracketMatch(s) ==
  LET gts == {j \in 1..Len(s) : s[j] = GT}
      lts == {i \in 1..Len(s) : s[i] = LT /\ \E j \in gts : i < j}
  IN  IF lts = {} THEN <<>> ELSE <<Max(lts), Max(gts)>>

\* s.replaceAll(/^c|c$/g, ''): one c removed at the start, one at the end.
StripEnds(s, c) ==
  LET t == IF s # <<>> /\ Head(s) = c THEN Tail(s) ELSE s
  IN  IF t # <<>> /\ t[Len(t)] = c THEN SubSeq(t, 1, Len(t) - 1) ELSE t

\* ------------------------------------------------------------------------
\* JavaScript values of the host's message
\* ------------------------------------------------------------------------

Undef == [k |-> "undefined"]
Str(s) == [k |-> "string", v |-> s]
Address(a, n) == [k |-> "address", address |-> a, name |-> n]
Array(items) == [k |-> "array", items |-> items]
Buf(bytes) == [k |-> "buffer", bytes |-> bytes]
Other == [k |-> "other"]

\* !x of JavaScript: undefined and the empty string are falsy; objects,
\* arrays (also empty ones) and buffers are truthy.
Falsy(x) == x = Undef \/ x = Str(<<>>)

\* ------------------------------------------------------------------------
\* Address parsing
\* ------------------------------------------------------------------------

extractEmailFromAddressString(address) ==
  LET t == Trim(address)
      m == BracketMatch(t)
      r == IF m = <<>> THEN t
           ELSE SubSeq(t, m[1] + 1, m[2] - 1) \o SubSeq(t, m[2] + 1, Len(t))
  IN  Trim(r)

\* A variant of extractNameFromAddressString that does not remove the
\* double quotes.
extractNameQuotesKept(address) ==
  LET t == Trim(address)
      m == BracketMatch(t)
      r == IF m = <<>> THEN t
           ELSE SubSeq(t, 1, m[1] - 1) \o SubSeq(t, m[2] + 1, Len(t))
  IN  Trim(StripEnds(Trim(r), APOS))

extractNameFromAddressString(address) ==
  LET t == Trim(address)
      m == BracketMatch(t)
      r == IF m = <<>> THEN t
           ELSE SubSeq(t, 1, m[1] - 1) \o SubSeq(t, m[2] + 1, Len(t))
  IN  Trim(StripEnds(Trim(StripEnds(Trim(r), DQ)), APOS))

mapFromAddress(address, defaultFromName, defaultFromAddress) ==
  IF Falsy(address)
  THEN [email |-> defaultFromAddress, name |-> <<defaultFromName>>]
  ELSE IF address.k = "string"
  THEN [email |-> extractEmailFromAddressString(address.v),
        name |-> IF extractNameFromAddressString(address.v) = address.v
                 THEN <<>>
                 ELSE <<extractNameFromAddressString(address.v)>>]
  ELSE [email |-> extractEmailFromAddressString(address.address),
        name |-> IF address.name = address.address
                 THEN <<>> ELSE <<address.name>>]

mapAddresses(addresses) ==
  IF Falsy(addresses) THEN <<>>
  ELSE IF addresses.k = "string"
  THEN << [email |-> extractEmailFromAddressString(addresses.v),
           name |-> IF extractNameFromAddressString(addresses.v) = addresses.v
                    THEN <<>>
                    ELSE <<extractNameFromAddressString(addresses.v)>>] >>
  ELSE IF addresses.k = "array"
  THEN [i \in 1..Len(addresses.items) |->
          LET address == addresses.items[i]
          IN  [email |-> IF address.k = "string"
                         THEN extractEmailFromAddressString(address.v)
                         ELSE extractEmailFromAddressString(address.address),
               name |-> IF address.k = "string"
                        THEN IF extractNameFromAddressString(address.v) = address.v
                             THEN <<>>
                             ELSE <<extractNameFromAddressString(address.v)>>
                        ELSE IF address.name = address.address
                             THEN <<>> ELSE <<address.name>>]]
  ELSE << [email |-> extractEmailFromAddressString(addresses.address),
           name |-> IF addresses.name = addresses.address
                    THEN <<>> ELSE <<addresses.name>>] >>

\* ------------------------------------------------------------------------
\* Errors
\* ------------------------------------------------------------------------

\* new APIError(message, status) of the host; message is the list of the
\* pieces that were concatenated.
APIError(message, status) ==
  [name |-> "APIError", status |-> <<status>>, message |-> message]

\* An error raised by the runtime, not by the adapter: it carries no status.
RuntimeError(name) == [name |-> name, status |-> <<>>, message |-> <<>>]

\* ------------------------------------------------------------------------
\* Attachment and header mapping
\* ------------------------------------------------------------------------

\* Buffer.from(s): the UTF-8 bytes of s (the characters used are ASCII).
CharCode(c) ==
  CASE c = "a" -> 97 [] c = "b" -> 98 [] c = SP -> 32 [] c = DQ -> 34
    [] c = APOS -> 39 [] c = LT -> 60 [] c = GT -> 62 [] OTHER -> 63

BufferFrom(s) == [i \in 1..Len(s) |-> CharCode(s[i])]

\* A variant of AttachmentThrows that forgets to check the filename.
AttachmentThrowsFilenameUnchecked(attachment) ==
  IF Falsy(attachment.content)
  THEN << APIError(<<"Attachment is missing filename or content">>, 400) >>
  ELSE IF attachment.content.k = "string" THEN <<>>
  ELSE IF attachment.content.k = "buffer" THEN <<>>
  ELSE << APIError(<<"Attachment content must be a string or a buffer">>, 400) >>

\* What the callback of attachments.map throws for one attachment, if it
\* throws; << >> when it returns.
AttachmentThrows(attachment) ==
  IF Falsy(attachment.filename) \/ Falsy(attachment.content)
  THEN << APIError(<<"Attachment is missing filename or content">>, 400) >>
  ELSE IF attachment.content.k = "string" THEN <<>>
  ELSE IF attachment.content.k = "buffer" THEN <<>>
  ELSE << APIError(<<"Attachment content must be a string or a buffer">>, 400) >>

\* What the callback returns for an attachment it accepts.
AttachmentMapped(attachment) ==
  IF attachment.content.k = "string"
  THEN [content |-> Buf(BufferFrom(attachment.content.v)),
        filename |-> attachment.filename]
  ELSE [content |-> attachment.content,
        filename |-> attachment.filename]

\* mapAttachments: threw is the error of the first attachment refused, in
\* list order (<< >> when none is); value is the list returned (<< >> for
\* undefined, <<list>> else) when nothing is thrown.
mapAttachments(attachments) ==
  IF Falsy(attachments) THEN [threw |-> <<>>, value |-> <<>>]
  ELSE LET items == attachments.items
           bad == {i \in 1..Len(items) : AttachmentThrows(items[i]) # <<>>}
       IN  IF bad # {}
           THEN [threw |-> AttachmentThrows(
                             items[CHOOSE i \in bad : \A j \in bad : i <= j]),
                 value |-> <<>>]
           ELSE [threw |-> <<>>,
                 value |-> << [i \in 1..Len(items) |->
                                 AttachmentMapped(items[i])] >>]

\* value.join(', ') of a list of strings.
RECURSIVE Join(_)
Join(strs) ==
  IF strs = <<>> THEN <<>>
  ELSE IF Len(strs) = 1 THEN strs[1]
  ELSE strs[1] \o Lit(", ") \o Join(Tail(strs))

\* messageHeadersToSweegoHeaders: headers is the list of the object's
\* [key, value] entries; entries whose value is neither a string nor an
\* array are dropped.
messageHeadersToSweegoHeaders(headers) ==
  LET kept == SelectSeq(headers.entries,
                        LAMBDA e : e.value.k \in {"string", "array"})
  IN  [i \in 1..Len(kept) |->
         [key |-> kept[i].key,
          value |-> IF kept[i].value.k = "string" THEN kept[i].value.v
                    ELSE Join(kept[i].value.items)]]

\* ------------------------------------------------------------------------
\* Payload assembly
\* ------------------------------------------------------------------------

\* The reply_to of the payload (<< >> when the field is not set), for a
\* message whose replyTo does not make the assembly throw.
ReplyTo(replyTo) ==
  IF Falsy(replyTo) THEN <<>>
  ELSE IF replyTo = Str(Lit("string"))
  THEN << [email |-> extractEmailFromAddressString(replyTo.v),
           name |-> IF extractNameFromAddressString(replyTo.v) = replyTo.v
                    THEN <<>>
                    ELSE <<extractNameFromAddressString(replyTo.v)>>] >>
  ELSE IF replyTo.k = "array"
  THEN LET addresses == mapAddresses(replyTo)
       IN  IF Len(addresses) # 0 THEN <<addresses[1]>> ELSE <<>>
  ELSE << [email |-> extractEmailFromAddressString(replyTo.address),
           name |-> IF replyTo.name = replyTo.address
                    THEN <<>> ELSE <<replyTo.name>>] >>

\* What the replyTo branch throws: a string other than the literal
\* 'string' reaches the last branch, which reads .address of it
\* (undefined) and calls .trim() on that.
ReplyToThrows(replyTo) ==
  IF ~Falsy(replyTo) /\ replyTo # Str(Lit("string")) /\ replyTo.k = "string"
  THEN << RuntimeError("TypeError") >>
  ELSE <<>>

\* A variant of DryRunField that copies the flag whenever it was given
\* (email['dry-run'] = dryRun), so that false is written too.
DryRunFieldCopied(dryRun) == dryRun

\* The dry-run field of the payload: dryRun is << >> when the argument is
\* undefined, and then defaults to false; the field is set only when true.
DryRunField(dryRun) ==
  LET dry == IF dryRun = <<>> THEN FALSE ELSE dryRun[1]
  IN  IF dry THEN <<TRUE>> ELSE <<>>

\* mapPayloadEmailToSweegoEmail: threw is the error thrown (<< >> when none
\* is), email the payload returned otherwise.
mapPayloadEmailToSweegoEmail(message, defaultFromAddress, defaultFromName, dryRun) ==
  LET attachments == mapAttachments(message.attachments)
  IN  IF attachments.threw # <<>>
      THEN [threw |-> attachments.threw]
      ELSE IF ReplyToThrows(message.replyTo) # <<>>
      THEN [threw |-> ReplyToThrows(message.replyTo)]
      ELSE
        [threw |-> <<>>,
         email |->
           [provider |-> "sweego",
            channel |-> "email",
            recipients |-> mapAddresses(message.to),
            from |-> mapFromAddress(message.from, defaultFromName,
                                    defaultFromAddress),
            subject |-> IF message.subject = Undef THEN <<>>
                        ELSE message.subject.v,
            attachments |-> IF attachments.value # <<>>
                               /\ Len(attachments.value[1]) # 0
                            THEN attachments.value ELSE <<>>,
            dry_run |-> DryRunField(dryRun),
            headers |-> IF Falsy(message.headers) THEN <<>>
                        ELSE <<messageHeadersToSweegoHeaders(message.headers)>>,
            message_txt |-> IF Falsy(message.text) THEN <<>>
                            ELSE <<message.text.v>>,
            message_html |-> IF Falsy(message.html) THEN <<>>
                             ELSE <<message.html.v>>,
            reply_to |-> ReplyTo(message.replyTo)]]

\* JSON.stringify(sendEmailOptions): undefined fields are left out (they
\* stay << >>), and a Buffer is written as {type: 'Buffer', data: bytes}
\* (Buffer.prototype.toJSON).
JSONstringify(email) ==
  [email EXCEPT !.attachments =
     IF email.attachments = <<>> THEN <<>>
     ELSE << [i \in 1..Len(email.attachments[1]) |->
                LET a == email.attachments[1][i]
                IN  [filename |-> a.filename,
                     content |-> IF a.content.k = "buffer"
                                 THEN [type |-> "Buffer",
                                       data |-> a.content.bytes]
                                 ELSE a.content]] >>]

\* ------------------------------------------------------------------------
\* The vendor's response
\* ------------------------------------------------------------------------

\* JSON values of a response body.  NotJson is a body res.json() cannot
\* parse; JMissing is the value of a field an object does not have.
NotJson == [j |-> "invalid"]
JMissing == [j |-> "undefined"]
JNull == [j |-> "null"]
JStr(s) == [j |-> "string", v |-> s]
JArray(items) == [j |-> "array", items |-> items]
JEntry(type, msg) == [j |-> "object", type |-> type, msg |-> msg]
JBody(detail, transaction_id) ==
  [j |-> "object", detail |-> detail, transaction_id |-> transaction_id]

\* A value that is truthy in JavaScript.
Truthy(v) == v.j \notin {"undefined", "null"} /\ v # JStr("")

\* The piece that the forEach callback appends for entry number idx
\* (counted from 0) of data.detail; << >> when it appends nothing.
DetailPiece(entry, idx) ==
  IF Truthy(entry.type) /\ Truthy(entry.msg)
  THEN << IF idx # 0 THEN "; " ELSE " " >>
       \o (IF Truthy(entry.type) /\ entry.type # JStr("null")
           THEN <<"Type: \"", entry.type.v, "\", ">> ELSE <<>>)
       \o <<"Message: \"", entry.msg.v, "\"">>
  ELSE <<>>

RECURSIVE DetailPieces(_, _)
DetailPieces(detail, idx) ==
  IF detail = <<>> THEN <<>>
  ELSE DetailPiece(Head(detail), idx) \o DetailPieces(Tail(detail), idx + 1)

\* formattedError: the pieces concatenated for a response whose data.detail
\* (or []) is the list detail.
FormattedError(status, statusText, detail) ==
  <<"Error sending email: ", ToString(status), " ", statusText, ".">>
  \o DetailPieces(detail, 0)

Resolved(value) == [kind |-> "resolved", value |-> value]
Rejected(error) == [kind |-> "rejected", error |-> error]

\* What sendEmail settles with once fetch has resolved with res: the value
\* returned, or the error thrown, by lines 52-65.
Classify(res) ==
  IF res.body = NotJson THEN Rejected(RuntimeError("SyntaxError"))
  ELSE IF res.status = 200 THEN Resolved(res.body)
  ELSE IF res.body = JNull THEN Rejected(RuntimeError("TypeError"))
  ELSE IF ~Truthy(res.body.detail)
  THEN Rejected(APIError(FormattedError(res.status, res.statusText, <<>>),
                         res.status))
  ELSE IF res.body.detail.j # "array"
  THEN Rejected(RuntimeError("TypeError"))
  ELSE IF \E i \in 1..Len(res.body.detail.items) :
            res.body.detail.items[i] = JNull
  THEN Rejected(RuntimeError("TypeError"))
  ELSE Rejected(APIError(FormattedError(res.status, res.statusText,
                                        res.body.detail.items),
                         res.status))

\* ------------------------------------------------------------------------
\* The adapter and its calls
\* ------------------------------------------------------------------------

VARIABLES
  cfg,       \* the arguments of sweegoAdapter, captured by the closure
  pc,        \* pc[c]: where call c of sendEmail stands
  message,   \* message[c]: the argument of call c
  requests,  \* requests[c]: the calls of fetch made by call c, in order
  res,       \* res[c]: the response fetch resolved with, for call c
  outcomes,  \* outcomes[c]: the settlements of call c's promise, in order
  console    \* console[c]: what call c printed with console.log

vars == <<cfg, pc, message, requests, res, outcomes, console>>

Calls == 1..MaxCalls

NoMessage == [k |-> "none"]
NoResponse == [status |-> 0, statusText |-> "", body |-> NotJson]

\* The fetch call of lines 43-50.
Request(c, email) ==
  [url |-> "https://api.sweego.io/send",
   method |-> "POST",
   headers |-> [ApiKey |-> cfg.apiKey, ContentType |-> "application/json"],
   body |-> JSONstringify(email)]

\* A variant of ResponseOf in which the response is kept in one place
\* shared by all calls: every call reads the response of the first call
\* that has one.
ResponseOfShared(c) ==
  LET have == {d \in Calls : res[d] # NoResponse}
  IN  res[CHOOSE d \in have : \A e \in have : d <= e]

\* The response that call c's await of fetch resolved with.
ResponseOf(c) == res[c]

\* sweegoAdapter(args): the adapter is constructed with one of Configs.
sweegoAdapter(Configs) ==
  /\ cfg \in Configs
  /\ pc = [c \in Calls |-> "idle"]
  /\ message = [c \in Calls |-> NoMessage]
  /\ requests = [c \in Calls |-> <<>>]
  /\ res = [c \in Calls |-> NoResponse]
  /\ outcomes = [c \in Calls |-> <<>>]
  /\ console = [c \in Calls |-> <<>>]

\* sendEmail(message), up to its first await: the payload is assembled and
\* either the assembly throws, which rejects the call, or fetch is called.
SendEmail(c, Messages) ==
  /\ pc[c] = "idle"
  /\ \E m \in Messages :
       LET sendEmailOptions ==
             mapPayloadEmailToSweegoEmail(m, cfg.defaultFromAddress,
                                          cfg.defaultFromName, cfg.dryRun)
       IN  /\ message' = [message EXCEPT ![c] = m]
           /\ IF sendEmailOptions.threw # <<>>
              THEN /\ outcomes' = [outcomes EXCEPT
                                     ![c] = Append(@, Rejected(sendEmailOptions.threw[1]))]
                   /\ pc' = [pc EXCEPT ![c] = "done"]
                   /\ UNCHANGED requests
              ELSE /\ requests' = [requests EXCEPT
                                     ![c] = Append(@, Request(c, sendEmailOptions.email))]
                   /\ pc' = [pc EXCEPT ![c] = "fetching"]
                   /\ UNCHANGED outcomes
  /\ UNCHANGED <<cfg, res, console>>

\* The vendor answers call c's request: fetch resolves with a response.
FetchResolves(c, Responses) ==
  /\ pc[c] = "fetching"
  /\ \E r \in Responses : res' = [res EXCEPT ![c] = r]
  /\ pc' = [pc EXCEPT ![c] = "responded"]
  /\ UNCHANGED <<cfg, message, requests, outcomes, console>>

\* The transport fails (DNS, connection refused): fetch rejects, and the
\* rejection is call c's, as nothing catches it.
FetchRejects(c) ==
  /\ pc[c] = "fetching"
  /\ outcomes' = [outcomes EXCEPT
                    ![c] = Append(@, Rejected(RuntimeError("FetchError")))]
  /\ pc' = [pc EXCEPT ![c] = "done"]
  /\ UNCHANGED <<cfg, message, requests, res, console>>

\* A variant of Settle that sends the request once more when the status is
\* not 200, before it gives up.
SettleRetrying(c) ==
  /\ pc[c] = "responded"
  /\ IF ResponseOf(c).status # 200 /\ Len(requests[c]) < 2
     THEN /\ requests' = [requests EXCEPT ![c] = Append(@, @[1])]
          /\ pc' = [pc EXCEPT ![c] = "fetching"]
          /\ UNCHANGED <<outcomes, console>>
     ELSE /\ outcomes' = [outcomes EXCEPT
                            ![c] = Append(@, Classify(ResponseOf(c)))]
          /\ pc' = [pc EXCEPT ![c] = "done"]
          /\ UNCHANGED <<requests, console>>
  /\ UNCHANGED <<cfg, message, res>>

\* sendEmail after its await of fetch: the body is read and the call
\* settles; on a status other than 200 the parsed body is printed first.
Settle(c) ==
  /\ pc[c] = "responded"
  /\ outcomes' = [outcomes EXCEPT ![c] = Append(@, Classify(ResponseOf(c)))]
  /\ console' = [console EXCEPT
                   ![c] = IF ResponseOf(c).status # 200
                             /\ ResponseOf(c).body # NotJson
                          THEN Append(@, ResponseOf(c).body) ELSE @]
  /\ pc' = [pc EXCEPT ![c] = "done"]
  /\ UNCHANGED <<cfg, message, requests, res>>

\* ------------------------------------------------------------------------
\* Inputs
\* ------------------------------------------------------------------------

Z == <<"Z">>

\* The configurations an adapter is constructed with: dryRun absent, true
\* or false.
Configs ==
  [apiKey : {"test-api-key"},
   defaultFromAddress : {<<"d">>},
   defaultFromName : {Z},
   dryRun : {<<>>, <<TRUE>>, <<FALSE>>}]

\* The address string ws1 "name" ws2 <email> ws3.
FormAddress(ws1, name, ws2, email, ws3) ==
  ws1 \o <<DQ>> \o name \o <<DQ>> \o ws2 \o <<LT>> \o email \o <<GT>> \o ws3

BaseMessage ==
  [from |-> Undef, to |-> Str(<<"a">>), subject |-> Str(<<"s">>),
   text |-> Str(<<"t">>), html |-> Undef, replyTo |-> Undef,
   attachments |-> Undef, headers |-> Undef]

\* The message of the repository's test "should handle sending an email".
TestMessage ==
  [BaseMessage EXCEPT
     !.from = Str(FormAddress(<<>>, Z, <<SP>>, <<"a">>, <<>>)),
     !.to = Str(FormAddress(<<>>, Z, <<SP>>, <<"b">>, <<>>)),
     !.html = Str(<<"h">>)]

Attachment(filename, content) == [filename |-> filename, content |-> content]

Headers(entries) == [k |-> "object", entries |-> entries]

\* Messages whose assembly succeeds, and messages whose assembly throws.
GoodMessages ==
  { TestMessage,
    [BaseMessage EXCEPT
       !.attachments = Array(<<Attachment(Str(<<"f">>), Str(<<"a", "b">>))>>),
       !.headers = Headers(<< [key |-> "dry-run", value |-> Str(<<"b">>)],
                              [key |-> "X-List",
                               value |-> Array(<< <<"a">>, <<"b">> >>)],
                              [key |-> "X-Obj", value |-> Other] >>)],
    [BaseMessage EXCEPT
       !.to = Array(<<Str(<<"a">>), Address(<<"b">>, Z)>>),
       !.replyTo = Address(<<"b">>, <<"b">>),
       !.subject = Undef, !.text = Str(<<>>)],
    [BaseMessage EXCEPT
       !.from = Address(<<"a">>, Z), !.to = Undef,
       !.replyTo = Array(<<Str(<<"b">>), Str(<<"a">>)>>),
       !.attachments = Array(<<Attachment(Str(<<"f">>), Buf(<<97>>))>>)] }

BadMessages ==
  { [BaseMessage EXCEPT
       !.attachments = Array(<<Attachment(Undef, Str(<<"a">>))>>)],
    [BaseMessage EXCEPT !.replyTo = Str(<<"b">>)] }

Messages == GoodMessages \cup BadMessages

Response(status, statusText, body) ==
  [status |-> status, statusText |-> statusText, body |-> body]

SuccessBody == JBody(JMissing, JStr("abc123"))

Responses ==
  { Response(200, "OK", SuccessBody),
    Response(422, "Unprocessable Entity",
             JBody(JArray(<<JEntry(JStr("validation_error"), JStr("bad field"))>>),
                   JMissing)),
    Response(500, "Internal Server Error", NotJson) }

\* ------------------------------------------------------------------------
\* Specification: calls in flight on one adapter
\* ------------------------------------------------------------------------

Init == sweegoAdapter(Configs)

Next ==
  \E c \in Calls :
    \/ SendEmail(c, Messages)
    \/ FetchResolves(c, Responses)
    \/ FetchRejects(c)
    \/ Settle(c)

Spec == Init /\ [][Next]_vars

\* ------------------------------------------------------------------------
\* Specification: one call, any attachments and any reply-to
\* ------------------------------------------------------------------------

\* Attachments: the filename absent, empty or given; the content absent,
\* an empty string, a string, a Buffer, or something else (a stream).
AttachmentInputs ==
  { Attachment(f, x) :
      f \in {Undef, Str(<<>>), Str(<<"f">>)},
      x \in {Undef, Str(<<>>), Str(<<"a">>), Buf(<<97>>), Other} }

AttachmentsInputs ==
  {Undef} \cup {Array(l) : l \in StringsUpTo(AttachmentInputs, MaxAttachments)}

\* Reply-to values: absent, strings (the empty one, the literal 'string',
\* a bare address, a "Name" <email> address), structured addresses, lists.
ReplyToInputs ==
  { Undef, Str(<<>>), Str(Lit("string")), Str(<<"b">>),
    Str(FormAddress(<<>>, Z, <<SP>>, <<"b">>, <<>>)),
    Address(<<"b">>, Z), Address(<<"b">>, <<"b">>),
    Array(<<>>), Array(<<Str(<<"b">>)>>),
    Array(<<Address(<<"b">>, Z), Str(<<"a">>)>>) }

AttachmentMessages ==
  { [BaseMessage EXCEPT !.attachments = a, !.replyTo = r] :
      a \in AttachmentsInputs, r \in ReplyToInputs }

NextMsg ==
  \E c \in {1} :
    \/ SendEmail(c, AttachmentMessages)
    \/ FetchResolves(c, Responses)
    \/ Settle(c)

SpecMsg == Init /\ [][NextMsg]_vars

\* ------------------------------------------------------------------------
\* Specification: one call, any JSON body in the response
\* ------------------------------------------------------------------------

\* Entries of a detail list: null, or an object whose type is missing,
\* null, 'null', '' or a name, and whose msg is missing, '' or a text.
DetailEntries ==
  {JNull} \cup
  { JEntry(t, m) :
      t \in {JMissing, JNull, JStr("null"), JStr(""), JStr("t")},
      m \in {JMissing, JStr(""), JStr("m")} }

\* Bodies: not JSON, null, a success object, or an object whose detail is
\* missing, a string (the shape of an HTTP exception) or a list of entries.
BodyInputs ==
  {NotJson, JNull, SuccessBody} \cup
  { JBody(d, JMissing) :
      d \in {JMissing, JStr("Unauthorized")} \cup
            {JArray(l) : l \in StringsUpTo(DetailEntries, MaxDetail)} }

ResponseInputs ==
  { Response(st[1], st[2], b) :
      st \in { <<200, "OK">>, <<401, "Unauthorized">>,
               <<422, "Unprocessable Entity">> },
      b \in BodyInputs }

\* The messages of the repository's two tests.
TestMessages == {TestMessage, BaseMessage}

NextRes ==
  \E c \in {1} :
    \/ SendEmail(c, TestMessages)
    \/ FetchResolves(c, ResponseInputs)
    \/ Settle(c)

SpecRes == Init /\ [][NextRes]_vars

\* ------------------------------------------------------------------------
\* Specification: one call, any address in from, to and reply-to
\* ------------------------------------------------------------------------

NameAlphabet == {"a", SP, DQ, APOS, LT, GT}
EmailAlphabet == {"a", SP, DQ, APOS}
AddrAlphabet == {"a", SP, DQ, APOS, LT, GT}
Padding == {<<>>, <<SP>>}

\* Address strings of the form "Name" <email>, with or without white space
\* around the parts; the email holds no angle bracket.
FormStrings ==
  { FormAddress(ws1, n, ws2, e, ws3) :
      ws1 \in Padding, n \in StringsUpTo(NameAlphabet, MaxNameLen),
      ws2 \in Padding, e \in StringsUpTo(EmailAlphabet, MaxEmailLen),
      ws3 \in Padding }

\* Every short string, of the form or not.
ShortStrings == StringsUpTo(AddrAlphabet, MaxAddrLen)

StructuredAddresses ==
  { Address(a, n) :
      a \in {<<"a">>, <<"b">>, <<SP, "a">>, <<LT, "a", GT>>},
      n \in {<<>>, <<"a">>, <<"b">>, <<SP, "a">>} }

\* Messages whose sender, or whose recipient, is an address string.
FromFormMessages == {[BaseMessage EXCEPT !.from = Str(s)] : s \in FormStrings}

ToFormMessages == {[BaseMessage EXCEPT !.to = Str(s)] : s \in FormStrings}

FromShortMessages == {[BaseMessage EXCEPT !.from = Str(s)] : s \in ShortStrings}

ToShortMessages == {[BaseMessage EXCEPT !.to = Str(s)] : s \in ShortStrings}

\* Messages whose addresses are structured { address, name } objects.
StructuredMessages ==
  {[BaseMessage EXCEPT !.from = x, !.to = Array(<<Str(<<"b">>), x>>),
                       !.replyTo = x] : x \in StructuredAddresses}

OkResponses == {Response(200, "OK", SuccessBody)}

InitAddr == sweegoAdapter({c \in Configs : c.dryRun = <<>>})

NextAddr ==
  \E c \in {1} :
    \/ SendEmail(c, FromFormMessages)
    \/ SendEmail(c, ToFormMessages)
    \/ SendEmail(c, FromShortMessages)
    \/ SendEmail(c, ToShortMessages)
    \/ SendEmail(c, StructuredMessages)
    \/ FetchResolves(c, OkResponses)
    \/ Settle(c)

SpecAddr == InitAddr /\ [][NextAddr]_vars

\* ------------------------------------------------------------------------
\* Claims checked under Spec
\* ------------------------------------------------------------------------

\* The payload assembled for call c's message under the captured
\* configuration.
Assembled(c) ==
  mapPayloadEmailToSweegoEmail(message[c], cfg.defaultFromAddress,
                               cfg.defaultFromName, cfg.dryRun)

\* C1: a call never issues more than one request and never settles more
\* than once; a call whose payload assembly succeeded has issued exactly
\* one request, a POST to https://api.sweego.io/send with the header
\* Api-Key equal to the apiKey given at construction; a call that has ended
\* has exactly one outcome, resolved or rejected, and a call that has not
\* ended has none; this holds whatever the response status is.
C1_OneRequestOneOutcome ==
  \A c \in Calls :
    /\ Len(requests[c]) <= 1
    /\ Len(outcomes[c]) <= 1
    /\ (pc[c] # "idle" /\ Assembled(c).threw = <<>>) =>
         /\ Len(requests[c]) = 1
         /\ requests[c][1].url = "https://api.sweego.io/send"
         /\ requests[c][1].method = "POST"
         /\ requests[c][1].headers.ApiKey = cfg.apiKey
    /\ (pc[c] = "done") <=> (Len(outcomes[c]) = 1)
    /\ \A i \in 1..Len(outcomes[c]) :
         outcomes[c][i].kind \in {"resolved", "rejected"}

\* C1 witness: one call was rejected on a 422 response and another resolved
\* on a 200 response, each after exactly one request.
C1_Witness ==
  \E c, d \in Calls :
    /\ pc[c] = "done" /\ res[c].status = 422 /\ Len(requests[c]) = 1
    /\ outcomes[c][1].kind = "rejected"
    /\ pc[d] = "done" /\ res[d].status = 200 /\ Len(requests[d]) = 1
    /\ outcomes[d][1].kind = "resolved"

\* C7: the dry-run flag captured at construction governs every request of
\* every call: when dryRun was true every posted body has dry-run: true;
\* when it was absent or false no posted body has a dry-run field (it is
\* never present with the value false), whatever the message holds.
C7_DryRunGoverned ==
  \A c \in Calls : \A i \in 1..Len(requests[c]) :
    /\ (cfg.dryRun = <<TRUE>>) => requests[c][i].body.dry_run = <<TRUE>>
    /\ (cfg.dryRun # <<TRUE>>) => requests[c][i].body.dry_run = <<>>

\* C7 witness: an adapter constructed with dryRun: false has posted two
\* different messages, one of them carrying a header named dry-run.
C7_Witness ==
  /\ cfg.dryRun = <<FALSE>>
  /\ \E c, d \in Calls :
       /\ requests[c] # <<>> /\ requests[d] # <<>>
       /\ message[c] # message[d]
       /\ message[c].headers # Undef

\* C10: at every point and under every interleaving, the request a call
\* posted is the one assembled from its own message and the captured
\* configuration, and the outcome of a call that got a response is the
\* classification of its own response; a step of one call leaves every
\* other call's message, request, response and outcome as they were; and
\* the captured configuration never changes.
C10_Independent ==
  \A c \in Calls :
    /\ requests[c] # <<>> => requests[c] = <<Request(c, Assembled(c).email)>>
    /\ (pc[c] = "done" /\ res[c] # NoResponse) =>
         outcomes[c] = <<Classify(res[c])>>

C10_CallsIndependent ==
  /\ []C10_Independent
  /\ [][ /\ cfg' = cfg
         /\ \A c \in Calls :
              pc'[c] = pc[c] =>
                /\ message'[c] = message[c] /\ requests'[c] = requests[c]
                /\ res'[c] = res[c] /\ outcomes'[c] = outcomes[c] ]_vars

\* C10 witness: a call has ended on its response while another call, with
\* a different message and a different response, is still in flight.
C10_Witness ==
  \E c, d \in Calls :
    /\ pc[c] = "done" /\ res[c] # NoResponse
    /\ pc[d] = "responded" /\ res[d] # res[c]
    /\ message[c] # message[d]

\* ------------------------------------------------------------------------
\* Claims checked under SpecMsg
\* ------------------------------------------------------------------------

\* An attachment that lacks a filename, lacks content, or has content that
\* is neither a string nor a Buffer.
LacksOrUnsupported(attachment) ==
  \/ attachment.filename \in {Undef, Str(<<>>)}
  \/ attachment.content \in {Undef, Str(<<>>)}
  \/ attachment.content.k \notin {"string", "buffer"}

HasBadAttachment(m) ==
  /\ m.attachments # Undef
  /\ \E i \in 1..Len(m.attachments.items) :
       LacksOrUnsupported(m.attachments.items[i])

\* C2: a call whose message holds an attachment that lacks a filename,
\* lacks content or has content that is neither a string nor a Buffer has
\* ended, rejected with the attachment error of status 400, and has issued
\* no request at any point, whatever else the message holds.
C2_BadAttachmentNoRequest ==
  \A c \in Calls :
    (pc[c] # "idle" /\ HasBadAttachment(message[c])) =>
      /\ pc[c] = "done"
      /\ requests[c] = <<>>
      /\ Len(outcomes[c]) = 1
      /\ outcomes[c][1].kind = "rejected"
      /\ outcomes[c][1].error.name = "APIError"
      /\ outcomes[c][1].error.status = <<400>>
      /\ outcomes[c][1].error.message \in
           { <<"Attachment is missing filename or content">>,
             <<"Attachment content must be a string or a buffer">> }

\* C2 witness: a message whose first attachment is valid and whose second
\* lacks a filename, and which also has a reply-to string, was rejected
\* with status 400.
C2_Witness ==
  \E c \in Calls :
    /\ pc[c] = "done"
    /\ message[c].attachments # Undef
    /\ Len(message[c].attachments.items) = 2
    /\ ~LacksOrUnsupported(message[c].attachments.items[1])
    /\ message[c].attachments.items[2].filename = Undef
    /\ message[c].replyTo = Str(<<"b">>)
    /\ outcomes[c][1].error.status = <<400>>

\* The address that address parsing yields for one string or one
\* structured address.
ParsedAddress(x) == mapAddresses(x)[1]

\* C8: for every message that supplies a reply-to value (a string, a
\* structured address or a list of these) the assembly completes, so the
\* request is issued, and reply_to is the address parsed from the value (of
\* the first element for a list); with no reply-to value there is no
\* reply_to field.
C8_ReplyToParsed ==
  \A c \in Calls :
    (pc[c] # "idle" /\ ~HasBadAttachment(message[c])) =>
      LET r == message[c].replyTo
      IN  /\ requests[c] # <<>>
          /\ requests[c][1].body.reply_to =
               IF Falsy(r) THEN <<>>
               ELSE IF r.k = "array"
               THEN IF r.items = <<>> THEN <<>>
                    ELSE <<ParsedAddress(r.items[1])>>
               ELSE <<ParsedAddress(r)>>

\* ------------------------------------------------------------------------
\* Claims checked under SpecRes
\* ------------------------------------------------------------------------

\* C3: the outcome of a call that received a JSON response is decided by
\* the status alone: on 200 the call resolves to the parsed body unchanged;
\* on any other status it is rejected with an error that carries the
\* status and whose message starts with "Error sending email: <status>",
\* and the body is never the value of the call.
C3_OutcomeByStatus ==
  \A c \in Calls :
    (pc[c] = "done" /\ res[c] # NoResponse /\ res[c].body # NotJson) =>
      IF res[c].status = 200
      THEN outcomes[c] = <<Resolved(res[c].body)>>
      ELSE /\ Len(outcomes[c]) = 1
           /\ outcomes[c][1].kind = "rejected"
           /\ outcomes[c][1].error.status = <<res[c].status>>
           /\ Len(outcomes[c][1].error.message) >= 2
           /\ outcomes[c][1].error.message[1] = "Error sending email: "
           /\ outcomes[c][1].error.message[2] = ToString(res[c].status)

\* The segments of the message as the claim describes them: one for each
\* entry with a non-empty type and a non-empty msg, in list order, a space
\* before the first of them and "; " before each later one.
RECURSIVE ExpectedSegments(_, _)
ExpectedSegments(detail, first) ==
  IF detail = <<>> THEN <<>>
  ELSE LET e == Head(detail)
       IN  IF Truthy(e.type) /\ Truthy(e.msg)
           THEN << IF first THEN " " ELSE "; " >>
                \o (IF e.type # JStr("null")
                    THEN <<"Type: \"", e.type.v, "\", ">> ELSE <<>>)
                \o <<"Message: \"", e.msg.v, "\"">>
                \o ExpectedSegments(Tail(detail), FALSE)
           ELSE ExpectedSegments(Tail(detail), first)

\* A body of the error shape: an object whose detail is missing or a list
\* of objects.
ErrorShaped(body) ==
  /\ body.j = "object"
  /\ \/ body.detail = JMissing
     \/ /\ body.detail.j = "array"
        /\ \A i \in 1..Len(body.detail.items) : body.detail.items[i] # JNull

\* C9: on a status other than 200 the error message is "Error sending
\* email: <status> <statusText>." followed by one segment for each detail
\* entry that has a non-empty type and a non-empty msg, in list order, with
\* a space before the first such segment and "; " before each later one;
\* entries lacking either field contribute nothing, wherever they stand,
\* and a missing detail list leaves the base message alone.
C9_ErrorMessage ==
  \A c \in Calls :
    (pc[c] = "done" /\ res[c] # NoResponse /\ res[c].status # 200
       /\ ErrorShaped(res[c].body)) =>
      outcomes[c] =
        << Rejected(APIError(
             <<"Error sending email: ", ToString(res[c].status), " ",
               res[c].statusText, ".">>
             \o ExpectedSegments(IF res[c].body.detail = JMissing THEN <<>>
                                 ELSE res[c].body.detail.items, TRUE),
             res[c].status)) >>

\* ------------------------------------------------------------------------
\* Claims checked under SpecAddr
\* ------------------------------------------------------------------------

\* s is of the form "Name" <email>: trimmed, it starts with a double quote
\* and ends with ">", the email between the last "<" and that ">" holds no
\* angle bracket, and only white space stands between the double quote
\* that closes the name and that "<".
IsForm(s) ==
  LET t == Trim(s)
  IN  /\ Len(t) >= 4
      /\ t[1] = DQ
      /\ t[Len(t)] = GT
      /\ \E lt \in 3..(Len(t) - 1) :
           /\ t[lt] = LT
           /\ \A i \in (lt + 1)..(Len(t) - 1) : t[i] \notin {LT, GT}
           /\ \E q \in 2..(lt - 1) :
                t[q] = DQ /\ \A i \in (q + 1)..(lt - 1) : t[i] = SP

\* The text between the double quotes and the text between the angle
\* brackets of a string of the form.
FormParts(s) ==
  LET t == Trim(s)
      lt == Max({i \in 1..Len(t) : t[i] = LT})
      q == Max({i \in 1..(lt - 1) : t[i] = DQ})
  IN  [name |-> SubSeq(t, 2, q - 1), email |-> SubSeq(t, lt + 1, Len(t) - 1)]

\* The address the original claim expects for a string of the form: the
\* texts between the brackets and between the quotes, trimmed.
FormExpectedOriginal(s) ==
  [email |-> Trim(FormParts(s).email), name |-> <<Trim(FormParts(s).name)>>]

\* The address the amended claim expects: the name loses, after the
\* quotes, one apostrophe at its start and one at its end, and is trimmed
\* again.
FormExpected(s) ==
  [email |-> Trim(FormParts(s).email),
   name |-> <<Trim(StripEnds(Trim(FormParts(s).name), APOS))>>]

\* C4 (as stated): for every from or to string of the form "Name" <email>
\* the posted body carries from = {email, name}, and recipients =
\* [{email, name}], with the email the text between the angle brackets and
\* the name the text between the double quotes, both trimmed.
C4_FormParsedOriginal ==
  \A c \in Calls :
    requests[c] # <<>> =>
      /\ (message[c].from.k = "string" /\ IsForm(message[c].from.v)) =>
           requests[c][1].body.from = FormExpectedOriginal(message[c].from.v)
      /\ (message[c].to.k = "string" /\ IsForm(message[c].to.v)) =>
           requests[c][1].body.recipients =
             <<FormExpectedOriginal(message[c].to.v)>>

\* C4 (amended): as above, but the name is the text between the double
\* quotes, trimmed, with one leading and one trailing apostrophe removed
\* as well, and trimmed again.
C4_FormParsed ==
  \A c \in Calls :
    requests[c] # <<>> =>
      /\ (message[c].from.k = "string" /\ IsForm(message[c].from.v)) =>
           requests[c][1].body.from = FormExpected(message[c].from.v)
      /\ (message[c].to.k = "string" /\ IsForm(message[c].to.v)) =>
           requests[c][1].body.recipients = <<FormExpected(message[c].to.v)>>

\* C4 witness: the from string  "a'" <a>  padded with white space was
\* posted as {email: a, name: a}.
C4_Witness ==
  \E c \in Calls :
    /\ requests[c] # <<>>
    /\ message[c].from =
         Str(FormAddress(<<SP>>, <<"a", APOS>>, <<SP>>, <<"a">>, <<SP>>))
    /\ IsForm(message[c].from.v)
    /\ requests[c][1].body.from = [email |-> <<"a">>, name |-> << <<"a">> >>]

\* A bare address: no angle bracket, and not blank.
IsBare(s) ==
  /\ Trim(s) # <<>>
  /\ \A i \in 1..Len(s) : s[i] \notin {LT, GT}

\* C5: for every bare from or to string, also one with white space or
\* quotes around it, the posted address is {email: the trimmed string} with
\* no name.
C5_BareParsed ==
  \A c \in Calls :
    requests[c] # <<>> =>
      /\ (message[c].from.k = "string" /\ IsBare(message[c].from.v)) =>
           requests[c][1].body.from =
             [email |-> Trim(message[c].from.v), name |-> <<>>]
      /\ (message[c].to.k = "string" /\ IsBare(message[c].to.v)) =>
           requests[c][1].body.recipients =
             << [email |-> Trim(message[c].to.v), name |-> <<>>] >>

\* C6: in every posted body no address (from, an entry of recipients,
\* reply_to) has a name equal to its email.
C6_NameNeverEmail ==
  \A c \in Calls :
    requests[c] # <<>> =>
      LET body == requests[c][1].body
      IN  /\ body.from.name # <<body.from.email>>
          /\ \A i \in 1..Len(body.recipients) :
               body.recipients[i].name # <<body.recipients[i].email>>
          /\ \A i \in 1..Len(body.reply_to) :
               body.reply_to[i].name # <<body.reply_to[i].email>>

====
